---- MODULE Spec2Model ----
(***************************************************************************)
(* Model of azely's query resolution and caching: the time-query parser    *)
(* (azely/time.py), the Object record and the object resolver              *)
(* (azely/object.py), the YAML record store (azely/utils.py) and the cache *)
(* decorator that ties them together.                                      *)
(*                                                                         *)
(* A Python str is a sequence of one-character strings.  Optional[str] is  *)
(* a record [some, val].                                                   *)
(***************************************************************************)
EXTENDS Integers, Sequences, FiniteSets, TLC

VARIABLES
    files,    \* path -> content of the file on disk
    pc,       \* process -> position inside the cached call it is running
    cur,      \* process -> the locals of that call
    stored,   \* the entries the calls so far have written: [path, key, rec]
    overlap,  \* a load-merge-save cycle began while another one was open
    inp,      \* the string handed to a parser function
    out       \* what the parser function returned for inp

vars == <<files, pc, cur, stored, overlap, inp, out>>

(***************************************************************************)
(* Bounds                                                                  *)
(***************************************************************************)
MaxLen == 4

(***************************************************************************)
(* Strings                                                                 *)
(***************************************************************************)
NoneV == [some |-> FALSE, val |-> <<>>]

Some(s) == [some |-> TRUE, val |-> s]

\* the one character U+2192, the rightwards arrow
RightArrow == "U+2192"

\* the characters parser inputs are built from
Alphabet == {"1", " ", RightArrow, "-", ">", "t", "o", "@", "i", "n"}

Whitespace == {" "}

RECURSIVE Strings(_)
Strings(n) ==
    IF n = 0 THEN {<<>>}
    ELSE LET shorter == Strings(n - 1)
         IN  shorter \cup {Append(s, c) : s \in {t \in shorter : Len(t) = n - 1}, c \in Alphabet}

\* str.strip()
RECURSIVE LStrip(_)
LStrip(s) ==
    IF s # <<>> /\ Head(s) \in Whitespace THEN LStrip(Tail(s)) ELSE s

RECURSIVE RStrip(_)
RStrip(s) ==
    IF s # <<>> /\ s[Len(s)] \in Whitespace THEN RStrip(SubSeq(s, 1, Len(s) - 1)) ELSE s

Strip(s) == RStrip(LStrip(s))

\* the positions (1-based) at which the literal sep occurs in s
Occurrences(sep, s) ==
    {i \in 1..(Len(s) - Len(sep) + 1) : SubSeq(s, i, i + Len(sep) - 1) = sep}

SetMin(S) == CHOOSE i \in S : \A j \in S : i <= j

\* the matches of the pattern sep, written without its lookbehind
MatchesAnywhere(sep, s) == Occurrences(sep, s)

\* the matches of the pattern (?<!^)sep: occurrences not at the start of s

Matches(sep, s) == {i \in Occurrences(sep, s) : i # 1}

\* Pattern.split(s, 1) for the pattern (?<!^)sep: at most one split, at the
\* leftmost match
ReSplit1(sep, s) ==
    IF Matches(sep, s) = {} THEN <<s>>
    ELSE LET i == SetMin(Matches(sep, s))
         IN  <<SubSeq(s, 1, i - 1), SubSeq(s, i + Len(sep), Len(s))>>

(***************************************************************************)
(* azely/time.py: constants and the two splitters                          *)
(***************************************************************************)
BOUND_SEPS == << <<"@">>, <<"i", "n">> >>

DEFAULT_END == <<"I", "n", " ", "1", " ", "d", "a", "y">>

DEFAULT_VIEW == NoneV

QUERY_SEPS == << <<RightArrow>>, <<"-", ">">>, <<"t", "o">> >>

\* the for loop of split_bound / split_query: the first separator, in
\* order, whose split has two parts
RECURSIVE FirstSplit(_, _, _)
FirstSplit(seps, k, query) ==
    IF k > Len(seps) THEN <<>>
    ELSE IF Len(ReSplit1(seps[k], query)) = 2 THEN ReSplit1(seps[k], query)
    ELSE FirstSplit(seps, k + 1, query)

\* split_bound with 'in' tried before '@'
split_bound_in_first(query) ==
    LET split == FirstSplit(<<BOUND_SEPS[2], BOUND_SEPS[1]>>, 1, query)
    IN  IF split # <<>> THEN <<Strip(split[1]), Some(Strip(split[2]))>>
        ELSE <<Strip(query), DEFAULT_VIEW>>

split_bound(query) ==
    LET split == FirstSplit(BOUND_SEPS, 1, query)
    IN  IF split # <<>> THEN <<Strip(split[1]), Some(Strip(split[2]))>>
        ELSE <<Strip(query), DEFAULT_VIEW>>

split_query(query) ==
    LET split == FirstSplit(QUERY_SEPS, 1, query)
    IN  IF split # <<>> THEN <<Strip(split[1]), Strip(split[2])>>
        ELSE <<Strip(query), DEFAULT_END>>

(***************************************************************************)
(* azely/utils.py: the YAML record store                                   *)
(*                                                                         *)
(* A file on disk is [kind, data]: it does not exist ("missing"), is zero  *)
(* bytes long ("empty"), holds text that is no YAML ("corrupt"), or holds  *)
(* the YAML of the mapping data ("valid").  A mapping is a function from   *)
(* keys to serialized records.                                             *)
(***************************************************************************)
EmptyMap == <<>>

File(kind, data) == [kind |-> kind, data |-> data]

Ok(v) == [ok |-> TRUE, err |-> "", val |-> v]

Raise(e) == [ok |-> FALSE, err |-> e, val |-> EmptyMap]

\* a read_yaml that takes every loaded document for an empty one
read_yaml_always_empty(file) ==
    IF file.kind = "missing" THEN Raise("FileNotFoundError") ELSE Ok(EmptyMap)

\* read_yaml(filepath): open() is outside the try block, so a missing file
\* raises; a load that fails and a falsy result both give dict()

read_yaml(file) ==
    IF file.kind = "missing" THEN Raise("FileNotFoundError")
    ELSE IF file.kind = "corrupt" THEN Ok(EmptyMap)
    ELSE IF file.kind = "empty" \/ file.data = EmptyMap THEN Ok(EmptyMap)
    ELSE Ok(file.data)

\* a write_yaml that returns before it opens the file
write_yaml_dump_failed(file, data) == file

\* a write_yaml that opens the file for writing and writes nothing
write_yaml_truncated(file, data) == File("empty", EmptyMap)

\* write_yaml(filepath, data): dump, then open('w') and write the whole
\* stream; the disk is taken not to fail

write_yaml(file, data) == File("valid", data)

(***************************************************************************)
(* azely/object.py: the Object record                                      *)
(***************************************************************************)
SOLAR_FRAME == "solar"

\* list(solar_system_ephemeris.bodies), the part the modelled queries meet
SOLAR_BODIES == {<<"s", "u", "n">>, <<"m", "o", "o", "n">>}

UpperOf == [c \in {"s", "u", "n", "g", "c", "m", "o"} |->
              CASE c = "s" -> "S" [] c = "u" -> "U" [] c = "n" -> "N" [] c = "g" -> "G"
                [] c = "c" -> "C" [] c = "m" -> "M" [] c = "o" -> "O"]

LowerChar(c) ==
    IF \E l \in DOMAIN UpperOf : UpperOf[l] = c
    THEN CHOOSE l \in DOMAIN UpperOf : UpperOf[l] = c
    ELSE c

UpperChar(c) == IF c \in DOMAIN UpperOf THEN UpperOf[c] ELSE c

\* str.lower()
Lower(s) == [i \in 1..Len(s) |-> LowerChar(s[i])]

\* str.capitalize(): first character upper case, the rest lower case
Capitalize(s) == [i \in 1..Len(s) |-> IF i = 1 THEN UpperChar(s[i]) ELSE LowerChar(s[i])]

\* the angle strings str(Longitude(x, "hr")) is defined on, with its value;
\* every other string makes Longitude raise
LongitudeOf == [x \in {"17h45m", "17h45m00s", "05h34m", "5h34m00s", "0deg", "0h00m00s"} |->
                  CASE x \in {"17h45m", "17h45m00s"} -> "17h45m00s"
                    [] x \in {"05h34m", "5h34m00s"} -> "5h34m00s"
                    [] x \in {"0deg", "0h00m00s"} -> "0h00m00s"]

\* the same for str(Latitude(x, "deg"))
LatitudeOf == [x \in {"-29d00m", "-29d00m00s", "+22d00m", "22d00m00s", "0deg", "0d00m00s"} |->
                 CASE x \in {"-29d00m", "-29d00m00s"} -> "-29d00m00s"
                   [] x \in {"+22d00m", "22d00m00s"} -> "22d00m00s"
                   [] x \in {"0deg", "0d00m00s"} -> "0d00m00s"]

\* Object.is_solar
is_solar(self) == self.frame = SOLAR_FRAME

\* Object.__post_init__
post_init(self) ==
    IF is_solar(self) THEN Ok(self)
    ELSE IF self.longitude \notin DOMAIN LongitudeOf THEN Raise("ValueError")
    ELSE IF self.latitude \notin DOMAIN LatitudeOf THEN Raise("ValueError")
    ELSE Ok([self EXCEPT !.longitude = LongitudeOf[self.longitude],
                         !.latitude = LatitudeOf[self.latitude]])

\* the dataclass Object: the generated __init__ takes its positional
\* arguments in the order the fields are declared (name, longitude,
\* latitude, frame) and then runs __post_init__
Object(a1, a2, a3, a4) ==
    post_init([name |-> a1, longitude |-> a2, latitude |-> a3, frame |-> a4])

\* Object(**entry): construction from a stored entry, by keyword
ObjectFromEntry(entry) == post_init(entry)

(***************************************************************************)
(* The inputs of the resolvers                                             *)
(***************************************************************************)
\* the cache files of the three domains and a user-definition file
AZELY_OBJECT == "objects"

AZELY_CACHE == "times"

AZELY_LOCATION == "locations"

UserSource == "user"

Paths == {AZELY_OBJECT, AZELY_CACHE, AZELY_LOCATION, UserSource}

\* consts.FRAME, the default frame
FRAME == "icrs"

\* the frames SkyCoord accepts; any other makes from_name raise ValueError
ValidFrames == {"icrs", "galactic"}

Frames == ValidFrames \cup {"bogus"}

GC == <<"G", "C">>

M1 == <<"M", "1">>

M2 == <<"M", "2">>

ObjectQueries == {<<"s", "u", "n">>, <<"S", "U", "N">>, GC, M1, M2}

\* res.to_string("hmsdms").split() for the name the CDS resolved
RemoteCoord(query) ==
    IF query = GC THEN <<"17h45m", "-29d00m">> ELSE <<"05h34m", "+22d00m">>

\* "1", "1 to 2@L", "1@Z", "1@Z to 2"
TimeQueries ==
    { <<"1">>,
      <<"1", " ", "t", "o", " ", "2", "@", "L">>,
      <<"1", "@", "Z">>,
      <<"1", "@", "Z", " ", "t", "o", " ", "2">> }

\* the names ZoneInfo knows; every other name raises ZoneInfoNotFoundError
IanaNames == {<<"Z">>}

\* the timezone the geocoder derives for a place
GeocodeTimezone(name) == <<"Z">>

(***************************************************************************)
(* azely/object.py: the two wrapped resolver bodies.  found says whether   *)
(* the CDS resolved the name (a timeout is a NameResolveError as well).    *)
(***************************************************************************)
\* get_object_solar
get_object_solar(query) == Object(Capitalize(query), SOLAR_FRAME, "", "")

\* get_object_by_name without its two except clauses
get_object_by_name_raw_errors(query, frame, found) ==
    IF ~found THEN Raise("NameResolveError")
    ELSE IF frame \notin ValidFrames THEN Raise("ValueError")
    ELSE Object(query, frame, RemoteCoord(query)[1], RemoteCoord(query)[2])

\* get_object_by_name
get_object_by_name(query, frame, found) ==
    IF ~found THEN Raise("AzelyError")
    ELSE IF frame \notin ValidFrames THEN Raise("AzelyError")
    ELSE Object(query, frame, RemoteCoord(query)[1], RemoteCoord(query)[2])

(***************************************************************************)
(* azely/time.py: get_time and parse_timezone                              *)
(***************************************************************************)
\* a or b, on Optional[str]: None and "" are falsy
PyOr(a, b) == IF a.some /\ a.val # <<>> THEN a ELSE b

\* the view get_time chooses: view_end or view_start
ChosenView(query) ==
    LET bounds == split_query(query)
    IN  PyOr(split_bound(bounds[2])[2], split_bound(bounds[1])[2])

\* a parse_timezone that asks get_location first
ZoneInfoNotFoundAlways(query) == TRUE

\* parse_timezone: whether ZoneInfo(query) raises ZoneInfoNotFoundError, so
\* that get_location is called
ZoneInfoNotFound(query) == query \notin IanaNames

\* Time(name=query, start=time_start, end=time_end[, timezone=...])
Time(query, timezone) ==
    LET bounds == split_query(query)
    IN  [name |-> query,
         start |-> split_bound(bounds[1])[1],
         end |-> split_bound(bounds[2])[1],
         timezone |-> timezone]

(***************************************************************************)
(* The cache decorator: a wrapped call is one load-merge-save cycle        *)
(*   idle -> load -> fetch [-> location] -> save -> done -> idle           *)
(* on the file named by source, under the key query.                       *)
(***************************************************************************)
AllProcs == {1, 2}

IdleCur ==
    [op |-> "", path |-> "", key |-> <<>>, frame |-> "", update |-> FALSE,
     explicit |-> FALSE, later |-> FALSE, before |-> <<>>, seen |-> "", m |-> EmptyMap,
     ran |-> 0, remote |-> 0, answer |-> "", loc |-> 0, depth |-> 0, err |-> "",
     result |-> <<>>]

NewCall(op, path, key, frame, update, explicit) ==
    [IdleCur EXCEPT !.op = op, !.path = path, !.key = key, !.frame = frame,
                    !.update = update, !.explicit = explicit, !.before = files,
                    !.later = \E s \in stored : s.path = path /\ s.key = key]

\* mapping[key] = entry
Merge(m, key, entry) ==
    [k \in DOMAIN m \cup {key} |-> IF k = key THEN entry ELSE m[k]]

\* get_object, its query given as parse() leaves it (source, query, update:
\* the part before the first ':' names the source, the rest is the query):
\* a solar-system body goes to get_object_solar, any other name to
\* get_object_by_name, both on parsed.source or AZELY_OBJECT
get_object(p, source, query, frame, update) ==
    /\ pc[p] = "idle"
    /\ cur' = [cur EXCEPT ![p] =
                 NewCall(IF Lower(query) \in SOLAR_BODIES THEN "get_object_solar"
                                                          ELSE "get_object_by_name",
                         IF source # "" THEN source ELSE AZELY_OBJECT,
                         query, frame, update, source # "")]
    /\ pc' = [pc EXCEPT ![p] = "load"]
    /\ UNCHANGED <<files, stored, overlap, inp, out>>

\* get_time(query, update=...), on the default source and with name left at
\* None
get_time(p, query, update) ==
    /\ pc[p] = "idle"
    /\ cur' = [cur EXCEPT ![p] = NewCall("get_time", AZELY_CACHE, query, "", update, FALSE)]
    /\ pc' = [pc EXCEPT ![p] = "load"]
    /\ UNCHANGED <<files, stored, overlap, inp, out>>

\* step 1: load the current mapping from the file
Load(p) ==
    /\ pc[p] = "load"
    /\ LET r == read_yaml(files[cur[p].path])
       IN  /\ cur' = [cur EXCEPT ![p].seen = files[cur[p].path].kind,
                                 ![p].m = r.val,
                                 ![p].err = r.err]
           /\ pc' = [pc EXCEPT ![p] = IF r.ok THEN "fetch" ELSE "done"]
    /\ overlap' = (overlap \/ \E q \in AllProcs \ {p} :
                                 /\ pc[q] \in {"fetch", "location", "save"}
                                 /\ cur[q].path = cur[p].path)
    /\ UNCHANGED <<files, stored, inp, out>>

\* the construction of the record of an entry, by keyword
FromEntry(op, entry) ==
    IF op = "get_time" THEN Ok(entry) ELSE ObjectFromEntry(entry)

\* step 2: the key exists and no refresh is forced: no call of the body
Hit(p) ==
    /\ pc[p] = "fetch"
    /\ ~cur[p].update
    /\ cur[p].key \in DOMAIN cur[p].m
    /\ LET r == FromEntry(cur[p].op, cur[p].m[cur[p].key])
       IN  cur' = [cur EXCEPT ![p].err = r.err, ![p].result = r.val]
    /\ pc' = [pc EXCEPT ![p] = "done"]
    /\ UNCHANGED <<files, stored, overlap, inp, out>>

Miss(p) == pc[p] = "fetch" /\ (cur[p].update \/ cur[p].key \notin DOMAIN cur[p].m)

\* what running a body leaves in the locals; answer is what the remote
\* collaborator said, if the body called it
Ran(p, r, answer) ==
    /\ cur' = [cur EXCEPT ![p].ran = @ + 1,
                          ![p].remote = @ + (IF answer = "" THEN 0 ELSE 1),
                          ![p].answer = answer,
                          ![p].err = r.err, ![p].result = r.val]
    /\ pc' = [pc EXCEPT ![p] = IF r.ok THEN "save" ELSE "done"]

\* step 3, the body of get_object_solar
FetchSolar(p) ==
    /\ Miss(p)
    /\ cur[p].op = "get_object_solar"
    /\ Ran(p, get_object_solar(cur[p].key), "")
    /\ UNCHANGED <<files, stored, overlap, inp, out>>

\* step 3, the body of get_object_by_name: one call of the CDS
FetchByName(p) ==
    /\ Miss(p)
    /\ cur[p].op = "get_object_by_name"
    /\ \E found \in BOOLEAN :
          Ran(p, get_object_by_name(cur[p].key, cur[p].frame, found),
              IF found THEN "found" ELSE "notfound")
    /\ UNCHANGED <<files, stored, overlap, inp, out>>

\* step 3, the body of get_time up to parse_timezone
FetchTime(p) ==
    /\ Miss(p)
    /\ cur[p].op = "get_time"
    /\ LET view == ChosenView(cur[p].key)
       IN  \/ /\ ~view.some
              /\ Ran(p, Ok(Time(cur[p].key, NoneV)), "")
           \/ /\ view.some /\ ~ZoneInfoNotFound(view.val)
              /\ Ran(p, Ok(Time(cur[p].key, Some(view.val))), "")
           \/ /\ view.some /\ ZoneInfoNotFound(view.val)
              /\ cur' = [cur EXCEPT ![p].ran = @ + 1]
              /\ pc' = [pc EXCEPT ![p] = "location"]
    /\ UNCHANGED <<files, stored, overlap, inp, out>>

\* get_location(view, update=True) inside parse_timezone: the location
\* resolver is a cached call of the geocoder on the locations file, and
\* calls no other resolver
Location(p) ==
    /\ pc[p] = "location"
    /\ LET view == ChosenView(cur[p].key).val
           r == read_yaml(files[AZELY_LOCATION])
           entry == [name |-> view, longitude |-> "0deg", latitude |-> "0deg",
                     altitude |-> "0m", timezone |-> GeocodeTimezone(view)]
       IN  \E found \in BOOLEAN :
              IF ~r.ok
              THEN /\ cur' = [cur EXCEPT ![p].loc = @ + 1, ![p].depth = 1, ![p].err = r.err]
                   /\ pc' = [pc EXCEPT ![p] = "done"]
                   /\ UNCHANGED files
              ELSE IF ~found
              THEN /\ cur' = [cur EXCEPT ![p].loc = @ + 1, ![p].depth = 1,
                                         ![p].remote = @ + 1, ![p].answer = "notfound",
                                         ![p].err = "AzelyError"]
                   /\ pc' = [pc EXCEPT ![p] = "done"]
                   /\ UNCHANGED files
              ELSE /\ cur' = [cur EXCEPT ![p].loc = @ + 1, ![p].depth = 1,
                                         ![p].remote = @ + 1, ![p].answer = "found",
                                         ![p].result = Time(cur[p].key, Some(entry.timezone))]
                   /\ pc' = [pc EXCEPT ![p] = "save"]
                   /\ files' = [files EXCEPT ![AZELY_LOCATION] =
                                   write_yaml(@, Merge(r.val, view, entry))]
    /\ UNCHANGED <<stored, overlap, inp, out>>

\* step 4: merge the fresh record under its key and save the mapping
Save(p) ==
    /\ pc[p] = "save"
    /\ files' = [files EXCEPT ![cur[p].path] =
                    write_yaml(@, Merge(cur[p].m, cur[p].key, cur[p].result))]
    /\ stored' = stored \cup {[path |-> cur[p].path, key |-> cur[p].key,
                               rec |-> cur[p].result]}
    /\ pc' = [pc EXCEPT ![p] = "done"]
    /\ UNCHANGED <<cur, overlap, inp, out>>

\* the call returns its record, or raises its error
Return(p) ==
    /\ pc[p] = "done"
    /\ pc' = [pc EXCEPT ![p] = "idle"]
    /\ cur' = [cur EXCEPT ![p] = IdleCur]
    /\ UNCHANGED <<files, stored, overlap, inp, out>>

\* the steps of process p, its calls drawing their inputs from the given sets
Step(p, sources, objects, frames, times, updates) ==
    \/ \E source \in sources, query \in objects, frame \in frames,
          update \in updates : get_object(p, source, query, frame, update)
    \/ \E query \in times, update \in updates : get_time(p, query, update)
    \/ Load(p)
    \/ Hit(p)
    \/ FetchSolar(p)
    \/ FetchByName(p)
    \/ FetchTime(p)
    \/ Location(p)
    \/ Save(p)
    \/ Return(p)

(***************************************************************************)
(* The files the program may find                                          *)
(***************************************************************************)
ObjectEntry(name, frame, lon, lat) ==
    [name |-> name, longitude |-> lon, latitude |-> lat, frame |-> frame]

\* a cache written by an earlier run (its GC entry is older than what the
\* CDS gives now)
OldObjects ==
    [k \in {GC, M1} |->
        IF k = GC THEN ObjectEntry(GC, "galactic", "0h00m00s", "0d00m00s")
        ELSE ObjectEntry(M1, "icrs", "5h34m00s", "22d00m00s")]

\* user.toml of the module docstring, with the one entry GC
UserObjects == [k \in {GC} |-> ObjectEntry(GC, "galactic", "0deg", "0deg")]

\* a times cache written by an earlier run, with a hand-edited entry
OldTimes ==
    [k \in {<<"1">>, <<"1", "@", "Z">>} |->
        IF k = <<"1">> THEN Time(k, NoneV)
        ELSE [name |-> k, start |-> <<"1">>, end |-> <<"2">>, timezone |-> Some(<<"Z">>)]]

InitFiles ==
    { f \in [Paths -> { File("missing", EmptyMap), File("empty", EmptyMap),
                        File("corrupt", EmptyMap), File("valid", OldObjects),
                        File("valid", UserObjects), File("valid", OldTimes) }] :
        /\ f[AZELY_OBJECT].kind = "valid" => f[AZELY_OBJECT].data = OldObjects
        /\ f[AZELY_CACHE].kind = "valid" => f[AZELY_CACHE].data = OldTimes
        /\ f[AZELY_CACHE].kind # "corrupt"
        /\ f[UserSource].kind \in {"missing", "valid"}
        /\ f[UserSource].kind = "valid" => f[UserSource].data = UserObjects
        /\ f[AZELY_LOCATION].kind \in {"missing", "empty"} }

ResolverInit ==
    /\ files \in InitFiles
    /\ pc = [p \in AllProcs |-> "idle"]
    /\ cur = [p \in AllProcs |-> IdleCur]
    /\ stored = {}
    /\ overlap = FALSE

(***************************************************************************)
(* Spec: the calls of one process, one after the other                     *)
(***************************************************************************)
Init == ResolverInit /\ inp = <<>> /\ out = <<>>

Next == Step(1, {"", UserSource}, ObjectQueries, Frames, TimeQueries, BOOLEAN)

Spec == Init /\ [][Next]_vars

(***************************************************************************)
(* ConcSpec: two processes whose calls interleave, on cache files that     *)
(* exist                                                                   *)
(***************************************************************************)
ConcInit ==
    /\ Init
    /\ files[AZELY_OBJECT] = File("valid", OldObjects)
    /\ files[AZELY_CACHE] = File("valid", OldTimes)
    /\ files[AZELY_LOCATION] = File("empty", EmptyMap)
    /\ files[UserSource] = File("valid", UserObjects)

\* queries whose keys the cache files do not hold yet
NewTimes == {<<"1", " ", "t", "o", " ", "2", "@", "L">>, <<"1", "@", "Z", " ", "t", "o", " ", "2">>}

ConcNext == \E p \in AllProcs : Step(p, {""}, {<<"s", "u", "n">>, M2}, {FRAME}, NewTimes, {FALSE})

ConcSpec == ConcInit /\ [][ConcNext]_vars

(***************************************************************************)
(* ParseSpec: split_query and split_bound applied to every string of at    *)
(* most MaxLen characters of Alphabet, and to the documented examples      *)
(***************************************************************************)
Example1 == <<"2", "0", "2", "4", "-", "0", "1", "-", "0", "1", " ", "t", "o", " ", "2", "0", "2", "4", "-", "0", "1", "-", "0", "2">>

Example2 == <<"2", "0", "2", "4", "-", "0", "1", "-", "0", "1">>

Example3 == <<"1", "2", ":", "0", "0", "@", "T", "o", "k", "y", "o">>

Example4 == <<"1", "2", ":", "0", "0">>

Examples == {Example1, Example2, Example3, Example4}

NoOut == [fn |-> "", r |-> <<>>]

ParseInit ==
    /\ files = [p \in Paths |-> File("missing", EmptyMap)]
    /\ pc = [p \in AllProcs |-> "idle"]
    /\ cur = [p \in AllProcs |-> IdleCur]
    /\ stored = {}
    /\ overlap = FALSE
    /\ inp \in Strings(MaxLen) \cup Examples
    /\ out = NoOut

ApplySplitQuery ==
    /\ out' = [fn |-> "split_query", r |-> split_query(inp)]
    /\ UNCHANGED <<files, pc, cur, stored, overlap, inp>>

ApplySplitBound ==
    /\ out' = [fn |-> "split_bound", r |-> split_bound(inp)]
    /\ UNCHANGED <<files, pc, cur, stored, overlap, inp>>

ParseNext == ApplySplitQuery \/ ApplySplitBound

ParseSpec == ParseInit /\ [][ParseNext]_vars

(***************************************************************************)
(* Properties of the parser (checked under ParseSpec)                      *)
(***************************************************************************)
\* sep stands in s at position i
HasAt(sep, s, i) ==
    /\ i + Len(sep) - 1 <= Len(s)
    /\ \A j \in 1..Len(sep) : s[i + j - 1] = sep[j]

\* the positions other than the first at which sep stands in s
Inner(sep, s) == {i \in 2..Len(s) : HasAt(sep, s, i)}

Least(S) == CHOOSE i \in S : \A j \in S : i <= j

Trimmed(s) == s = <<>> \/ (s[1] # " " /\ s[Len(s)] # " ")

\* the result of splitting s once at position i, where sep stands
Sides(sep, s, i) == <<Strip(SubSeq(s, 1, i - 1)), Strip(SubSeq(s, i + Len(sep), Len(s)))>>

ArrowSeps == << <<RightArrow>>, <<"-", ">">>, <<"t", "o">> >>

ViewSeps == << <<"@">>, <<"i", "n">> >>

\* the separators of seps, by index, that qualify for the split
AtLeastOnce(seps, s) == {k \in 1..Len(seps) : Inner(seps[k], s) # {}}

ExactlyOnce(seps, s) == {k \in 1..Len(seps) : Cardinality(Inner(seps[k], s)) = 1}

\* C6 (as amended): split_query splits on the first pattern, in the order
\* U+2192, '->', 'to', that occurs at least once at a position other than
\* index 0, at its leftmost such occurrence, and returns the two trimmed
\* sides; when no pattern occurs so, it returns (trimmed query, 'In 1 day').
\* '2024-01-01 to 2024-01-02' gives ('2024-01-01', '2024-01-02') and
\* '2024-01-01' gives ('2024-01-01', 'In 1 day').
C6_SplitQueryFirstMatch ==
    out.fn = "split_query" =>
        /\ LET ks == AtLeastOnce(ArrowSeps, inp)
           IN  IF ks = {}
               THEN out.r = <<Strip(inp), DEFAULT_END>>
               ELSE LET sep == ArrowSeps[Least(ks)]
                    IN  out.r = Sides(sep, inp, Least(Inner(sep, inp)))
        /\ Trimmed(out.r[1]) /\ Trimmed(out.r[2])
        /\ inp = Example1 => out.r = <<<<"2", "0", "2", "4", "-", "0", "1", "-", "0", "1">>, <<"2", "0", "2", "4", "-", "0", "1", "-", "0", "2">>>>
        /\ inp = Example2 => out.r = <<<<"2", "0", "2", "4", "-", "0", "1", "-", "0", "1">>, DEFAULT_END>>

\* C6 as stated: the split is on the first pattern that matches exactly
\* once; a pattern that matches twice is passed over.
C6_SplitQueryExactlyOnce ==
    out.fn = "split_query" =>
        LET ks == ExactlyOnce(ArrowSeps, inp)
        IN  IF ks = {}
            THEN out.r = <<Strip(inp), DEFAULT_END>>
            ELSE LET sep == ArrowSeps[Least(ks)]
                 IN  out.r = Sides(sep, inp, Least(Inner(sep, inp)))

\* split_query was applied to a query in which U+2192 stands twice and split
\* it at the first one
C6_Witness ==
    /\ out.fn = "split_query"
    /\ Cardinality(Inner(<<RightArrow>>, inp)) = 2
    /\ out.r = << <<"1">>, <<"1", RightArrow>> >>

\* s holds neither '@' nor 'in'
NoSepToken(s) == \A k \in 1..Len(ViewSeps) : \A i \in 1..Len(s) : ~HasAt(ViewSeps[k], s, i)

\* the first part of C7: one split, at the leftmost occurrence of the first
\* separator of '@', 'in' that stands at a position other than index 0
SplitBoundOnce ==
    /\ LET ks == AtLeastOnce(ViewSeps, inp)
       IN  IF ks = {}
           THEN out.r = <<Strip(inp), NoneV>>
           ELSE LET sep == ViewSeps[Least(ks)]
                    sides == Sides(sep, inp, Least(Inner(sep, inp)))
                IN  out.r = <<sides[1], Some(sides[2])>>
    /\ Trimmed(out.r[1]) /\ Trimmed(out.r[2].val)
    /\ inp = Example3 => out.r = <<<<"1", "2", ":", "0", "0">>, Some(<<"T", "o", "k", "y", "o">>)>>
    /\ inp = Example4 => out.r = <<<<"1", "2", ":", "0", "0">>, NoneV>>

\* C7 (as amended): split_bound splits once, at the leftmost occurrence of
\* the first separator of '@', 'in' that stands at a position other than
\* index 0, trims both sides, and gives (trimmed bound, none) when there is
\* no such separator; for every non-empty, whitespace-trimmed time and
\* whitespace-trimmed view that hold no separator token,
\* split_bound(time + '@' + view) = (time, view).
C7_SplitBoundRoundTrip ==
    out.fn = "split_bound" =>
        /\ SplitBoundOnce
        /\ \A i \in 1..Len(inp) :
              LET time == SubSeq(inp, 1, i - 1)
                  view == SubSeq(inp, i + 1, Len(inp))
              IN  (/\ inp[i] = "@"
                   /\ NoSepToken(time) /\ NoSepToken(view)
                   /\ time # <<>> /\ Trimmed(time) /\ Trimmed(view))
                  => out.r = <<time, Some(view)>>

\* C7 as stated: the round trip holds for every time and view that hold no
\* separator token.
C7_SplitBoundRoundTripAll ==
    out.fn = "split_bound" =>
        /\ SplitBoundOnce
        /\ \A i \in 1..Len(inp) :
              LET time == SubSeq(inp, 1, i - 1)
                  view == SubSeq(inp, i + 1, Len(inp))
              IN  (inp[i] = "@" /\ NoSepToken(time) /\ NoSepToken(view))
                  => out.r = <<time, Some(view)>>

\* split_bound was applied to time + '@' + view and gave (time, view)
C7_Witness ==
    /\ out.fn = "split_bound"
    /\ inp = <<"1", "1", "@", "n">>
    /\ out.r = << <<"1", "1">>, Some(<<"n">>) >>

(***************************************************************************)
(* Properties of the resolvers (checked under Spec unless said otherwise)  *)
(***************************************************************************)
\* the mapping a file holds for a reader: none unless the file is valid
Visible(file) == IF file.kind = "valid" THEN file.data ELSE EmptyMap

\* process p has run its body, the body returned a record and the call has
\* saved it
Stored(p) == pc[p] = "done" /\ cur[p].ran = 1 /\ cur[p].err = ""

FetchFailed(p) ==
    /\ pc[p] = "done" /\ cur[p].ran = 1
    /\ \/ cur[p].answer = "notfound"
       \/ cur[p].op = "get_object_by_name" /\ cur[p].frame \notin ValidFrames

C5_LoadTolerant ==
    \A p \in AllProcs :
        cur[p].seen # "" =>
            /\ cur[p].seen \in {"missing", "empty", "corrupt"} =>
                  (cur[p].m = EmptyMap /\ ~(pc[p] = "done" /\ cur[p].ran = 0 /\ cur[p].err # ""))
            /\ cur[p].seen = "valid" => cur[p].m = cur[p].before[cur[p].path].data

\* C8 as stated: the record of a solar-system body has name = the
\* capitalized query and frame = 'solar'; the record of any other name has
\* name = the query, frame = the requested frame, and the resolved
\* longitude and latitude.
C8_RecordFields ==
    \A p \in AllProcs :
        (pc[p] \in {"save", "done"} /\ cur[p].ran = 1) =>
            /\ cur[p].op = "get_object_solar" =>
                  /\ cur[p].err = ""
                  /\ cur[p].result.name = Capitalize(cur[p].key)
                  /\ cur[p].result.frame = SOLAR_FRAME
            /\ (/\ cur[p].op = "get_object_by_name"
                /\ cur[p].answer = "found" /\ cur[p].frame \in ValidFrames) =>
                  /\ cur[p].err = ""
                  /\ cur[p].result.name = cur[p].key
                  /\ cur[p].result.frame = cur[p].frame
                  /\ cur[p].result.longitude = LongitudeOf[RemoteCoord(cur[p].key)[1]]
                  /\ cur[p].result.latitude = LatitudeOf[RemoteCoord(cur[p].key)[2]]

\* an entry a call has stored is no longer in its file
LostUpdate == \E s \in stored : s.key \notin DOMAIN Visible(files[s.path])

AtMostOneLookup ==
    \A p \in AllProcs :
        /\ cur[p].loc <= 1 /\ cur[p].depth <= 1 /\ cur[p].ran <= 1
        /\ cur[p].loc = 1 =>
              /\ cur[p].op = "get_time"
              /\ ChosenView(cur[p].key).some
              /\ ChosenView(cur[p].key).val \notin IanaNames
        /\ (/\ cur[p].op = "get_time" /\ pc[p] \in {"save", "done"} /\ cur[p].ran = 1
            /\ (ChosenView(cur[p].key).some => ChosenView(cur[p].key).val \in IanaNames)) =>
              (cur[p].loc = 0 /\ cur[p].remote = 0 /\ cur[p].err = "")

\* how far a call has come
Rank(l) ==
    CASE l = "idle" -> 0 [] l = "load" -> 1 [] l = "fetch" -> 2
      [] l = "location" -> 3 [] l = "save" -> 4 [] l = "done" -> 5

\* every step of a call brings it nearer to its return
Progress ==
    \A p \in AllProcs :
        pc'[p] # pc[p] => (Rank(pc'[p]) > Rank(pc[p]) \/ (pc[p] = "done" /\ pc'[p] = "idle"))

\* C10: every step of a call brings it nearer to its return, so a get_time
\* call ends, with a record or an error, within five steps; it makes at most
\* one location lookup, one level deep, and only for a chosen view that is
\* not an IANA name; with an IANA view or no view it makes no location
\* lookup at all.
C10_BoundedLookup ==
    /\ []AtMostOneLookup
    /\ [][Progress]_vars

\* a get_time whose view is a place has made its one location lookup
C10_Witness ==
    /\ pc[1] = "done" /\ cur[1].op = "get_time" /\ cur[1].loc = 1
    /\ cur[1].err = ""
    /\ cur[1].result.timezone = Some(<<"Z">>)

====
